---------------------------- MODULE Spec2Model ----------------------------
(***************************************************************************)
(* Verification model of the ApproximatedAttention experiment scripts:     *)
(*   - the epoch loop of main in experiments/GAT/hps_SamplerGAT.py and     *)
(*     experiments/SamplerGAT/hps_SamplerGAT.py (plateau LR scheduler,     *)
(*     metric logging, early stopping),                                    *)
(*   - transform_data of experiments/dgl_SIGNff/dgl_SIGN.py (K-hop         *)
(*     diffusion of the node features),                                    *)
(*   - main of experiments/SIGNff_CSX/build_yaml_SIGNplus_CS.py (the       *)
(*     sweep-config builder),                                              *)
(*   - the training loop of main in experiments/dgl_SIGNff/dgl_SIGN.py     *)
(*     (evaluation every 100 epochs, best-result tracking).                *)
(***************************************************************************)
EXTENDS Integers, Sequences, FiniteSets, TLC

(***************************************************************************)
(* Numbers of the epoch loop.                                              *)
(*                                                                         *)
(* A loss is a triple <<inf, hi, lo>> that stands for                      *)
(*   +infinity            when inf = 1,                                    *)
(*   hi * 1e10 + lo/100   when inf = 0 (lo < 1e12),                        *)
(* so that the sentinel 1e10 and losses in hundredths are both exact       *)
(* within TLC's 32-bit integers.  The order is lexicographic.              *)
(***************************************************************************)
Num(hi, lo) == <<0, hi, lo>>

PosInf == <<1, 0, 0>>

Lt(a, b) ==
    \/ a[1] < b[1]
    \/ a[1] = b[1] /\ a[2] < b[2]
    \/ a[1] = b[1] /\ a[2] = b[2] /\ a[3] < b[3]

Gt(a, b) == Lt(b, a)

Scale(a, k) == <<a[1] * k, a[2] * k, a[3] * k>>

\* Bounds of the model.
MaxEpochs == 5
MaxPatience == 3
LrEpochs == 7

\* Validation losses the eval step may report (inputs of the model).
StopLosses == {Num(0, 80), Num(0, 85), Num(0, 90), Num(0, 95), Num(2, 0)}
PlateauLosses == {Num(0, 80), Num(0, 90), Num(2, 0)}

MaxEdges == 4
MaxK == 2
MaxSignEpochs == 300

\* Graphs and features transform_data is run on (inputs of the model).
Nodes == {1, 2, 3}
FeatVals == {0, 1, 2}

\* Learning rates are integers in units of 1e-12.
LrDefault == 1000000000
LrVals == {LrDefault, 2000000}
LrFactorDiv == 10
LrMin == 1000000
LrEps == 10000
LrPatience == 5
ThresholdNum == 9999
ThresholdDen == 10000

Variants == {"GAT", "SamplerGAT"}

VARIABLES
    variant,         \* which of the two hps_SamplerGAT.py scripts runs
    epochs,          \* config.epochs
    patience,        \* early-stopping patience
    pc,              \* position in main
    status,          \* Running, Stopped_Budget, Stopped_EarlyStop, Stopped_Error
    epoch,           \* loop variable
    val_loss,        \* loss of the current epoch
    previous_loss,   \* early-stopping reference loss
    trigger_times,   \* early-stopping trigger counter
    best,            \* scheduler.best
    num_bad_epochs,  \* scheduler.num_bad_epochs
    lr,              \* optimizer.param_groups[0]['lr']
    losses,          \* history: the validation loss of every epoch evaluated
    lrs,             \* history: the initial lr, then lr after every scheduler.step
    n_train,         \* number of train_epoch calls
    n_eval,          \* number of test_epoch calls
    records,         \* epochs logged to the metric sink
    log_failed,      \* TRUE once a wandb.log call has raised
    \* transform_data(data, K)
    K,               \* the hop count passed in
    edge_index,      \* data.edge_index: set of <<row, col>> pairs
    x_in,            \* the features the caller passed in data.x
    has_x,           \* FALSE when data.x is None
    td_pc,           \* position in transform_data
    td_outcome,      \* running, returned, AssertionError
    deg_inv_sqrt,    \* the normalization factors
    adj_t,           \* stored entries of the normalized adjacency
    xs,              \* the list xs
    data,            \* data.x (key 0) and the attached data['x<i>'] (key i)
    td_i,            \* loop variable i
    \* main(args) of build_yaml_SIGNplus_CS.py
    args,            \* the parsed command line
    y_pc,            \* position in main
    y_outcome,       \* running, AssertionError, written
    yaml_file,       \* what was dumped to args.YAML_FILE
    \* main(args) of dgl_SIGN.py
    EPOCHS,          \* args.EPOCHS
    sign_pc,         \* position in main
    sign_outcome,    \* running, printed, NameError
    sign_epoch,      \* loop variable epoch
    best_epoch,      \* epoch of the best validation accuracy
    best_train,      \* accuracies of that epoch; best_train starts unbound
    best_val,
    best_test,
    epoch_train_time, \* number of entries of the list epoch_train_time
    epoch_inf_time,  \* the list epoch_inf_time: the epoch of each entry
    evals            \* history: the accs of every eval call

loopVars == <<variant, epochs, patience, pc, status, epoch, val_loss,
              previous_loss, trigger_times, best, num_bad_epochs, lr,
              losses, lrs, n_train, n_eval, records, log_failed>>

tdVars == <<K, edge_index, x_in, has_x, td_pc, td_outcome, deg_inv_sqrt,
            adj_t, xs, data, td_i>>

yamlVars == <<args, y_pc, y_outcome, yaml_file>>

signVars == <<EPOCHS, sign_pc, sign_outcome, sign_epoch, best_epoch, best_train,
              best_val, best_test, epoch_train_time, epoch_inf_time, evals>>

vars == <<loopVars, tdVars, yamlVars, signVars>>

\* What the steps of one program leave alone: the other programs.
notLoop == <<tdVars, yamlVars, signVars>>
notTd == <<loopVars, yamlVars, signVars>>
notYaml == <<loopVars, tdVars, signVars>>
notSign == <<loopVars, tdVars, yamlVars>>

Max(a, b) == IF a >= b THEN a ELSE b

(***************************************************************************)
(* torch.optim.lr_scheduler.ReduceLROnPlateau as main configures it:       *)
(* mode='min', factor=0.1, patience=5, min_lr=1e-6, and the defaults       *)
(* threshold=1e-4, threshold_mode='rel', cooldown=0, eps=1e-8.             *)
(***************************************************************************)
\* is_better: a < best * (1 - threshold)
is_better(a, b) == Lt(Scale(a, ThresholdDen), Scale(b, ThresholdNum))

\* the test of step that triggers _reduce_lr: num_bad_epochs > patience
\* (ShouldReduceEager: reducing as soon as the count reaches patience)
ShouldReduceEager(bad) == bad >= LrPatience

ShouldReduce(bad) == bad > LrPatience

\* _reduce_lr: new_lr = max(old_lr * factor, min_lr), kept if old - new > eps
ReducedLr(old) ==
    LET new == Max(old \div LrFactorDiv, LrMin)
    IN  IF old - new > LrEps THEN new ELSE old

(***************************************************************************)
(* The early-stopping block of main.                                       *)
(***************************************************************************)
\* if current_loss > previous_loss
\* (TriggeredOrEqual: >= in its place; TriggeredInverted: < in its place)
TriggeredOrEqual(current_loss, reference) == ~Lt(current_loss, reference)

TriggeredInverted(current_loss, reference) == Lt(current_loss, reference)

Triggered(current_loss, reference) == Gt(current_loss, reference)

\* if trigger_times >= patience  (StopNowLate: > in its place)
StopNowLate(triggers, p) == triggers > p

StopNow(triggers, p) == triggers >= p

\* previous_loss = current_loss, after the if/else (skipped by the break)
\* (NextReferenceBest: the assignment moved into the else branch)
NextReferenceBest(current_loss, reference, triggered) ==
    IF triggered THEN reference ELSE current_loss

NextReference(current_loss, reference, triggered) == current_loss

\* patience = 5 (GAT), patience = 15 (SamplerGAT)
PatienceOf(v) == IF v = "GAT" THEN 5 ELSE 15

\* the first step of an epoch in each script after test_epoch returned
\* (AfterEvalNoLog: SamplerGAT going to scheduler.step without its wandb.log)
AfterEvalNoLog(v) == "sched"

AfterEval(v) == IF v = "GAT" THEN "sched" ELSE "log"

AfterSched(v) == IF v = "GAT" THEN "log" ELSE "stop"

AfterLog(v) == IF v = "GAT" THEN "stop" ELSE "sched"

InitLoop(E, P, L) ==
    /\ variant \in Variants
    /\ epochs \in E
    /\ patience \in P
    /\ lr \in L
    /\ pc = "log_params"
    /\ status = "Running"
    /\ epoch = 0
    /\ val_loss = Num(0, 0)
    /\ previous_loss = Num(1, 0)
    /\ trigger_times = 0
    /\ best = PosInf
    /\ num_bad_epochs = 0
    /\ losses = <<>>
    /\ lrs = <<lr>>
    /\ n_train = 0
    /\ n_eval = 0
    /\ records = <<>>
    /\ log_failed = FALSE

\* wandb.log({'trainable_params': n_params}), then the header of the for loop
log_params ==
    /\ pc = "log_params"
    /\ IF epochs > 0
       THEN pc' = "train" /\ status' = status
       ELSE pc' = "done" /\ status' = "Stopped_Budget"
    /\ UNCHANGED <<variant, epochs, patience, epoch, val_loss, previous_loss,
                   trigger_times, best, num_bad_epochs, lr, losses, lrs,
                   n_train, n_eval, records, log_failed>>
    /\ UNCHANGED notLoop

\* train_epoch(model, optimizer, train_loader)
train_epoch ==
    /\ pc = "train"
    /\ n_train' = n_train + 1
    /\ pc' = "eval"
    /\ UNCHANGED <<variant, epochs, patience, status, epoch, val_loss,
                   previous_loss, trigger_times, best, num_bad_epochs, lr,
                   losses, lrs, n_eval, records, log_failed>>
    /\ UNCHANGED notLoop

\* test_epoch(...) returns the validation loss of the epoch
test_epoch(L) ==
    /\ pc = "eval"
    /\ \E l \in L :
          /\ val_loss' = l
          /\ losses' = Append(losses, l)
    /\ n_eval' = n_eval + 1
    /\ pc' = AfterEval(variant)
    /\ UNCHANGED <<variant, epochs, patience, status, epoch, previous_loss,
                   trigger_times, best, num_bad_epochs, lr, lrs, n_train,
                   records, log_failed>>
    /\ UNCHANGED notLoop

\* train_epoch or test_epoch raises: nothing in main catches it
collaborator_raises ==
    /\ pc \in {"train", "eval"}
    /\ pc' = "done"
    /\ status' = "Stopped_Error"
    /\ UNCHANGED <<variant, epochs, patience, epoch, val_loss, previous_loss,
                   trigger_times, best, num_bad_epochs, lr, losses, lrs,
                   n_train, n_eval, records, log_failed>>
    /\ UNCHANGED notLoop

\* scheduler.step(val_loss)
scheduler_step ==
    /\ pc = "sched"
    /\ LET better == is_better(val_loss, best)
           bad == IF better THEN 0 ELSE num_bad_epochs + 1
       IN  /\ best' = IF better THEN val_loss ELSE best
           /\ IF ShouldReduce(bad)
              THEN lr' = ReducedLr(lr) /\ num_bad_epochs' = 0
              ELSE lr' = lr /\ num_bad_epochs' = bad
    /\ lrs' = Append(lrs, lr')
    /\ pc' = AfterSched(variant)
    /\ UNCHANGED <<variant, epochs, patience, status, epoch, val_loss,
                   previous_loss, trigger_times, losses, n_train, n_eval,
                   records, log_failed>>
    /\ UNCHANGED notLoop

\* wandb.log(log_dict) returns
wandb_log ==
    /\ pc = "log"
    /\ records' = Append(records, epoch)
    /\ pc' = AfterLog(variant)
    /\ UNCHANGED <<variant, epochs, patience, status, epoch, val_loss,
                   previous_loss, trigger_times, best, num_bad_epochs, lr,
                   losses, lrs, n_train, n_eval, log_failed>>
    /\ UNCHANGED notLoop

\* wandb.log raises: no try/except surrounds either call, main is left
wandb_log_raises ==
    /\ pc \in {"log_params", "log"}
    /\ log_failed' = TRUE
    /\ pc' = "done"
    /\ status' = "Stopped_Error"
    /\ UNCHANGED <<variant, epochs, patience, epoch, val_loss, previous_loss,
                   trigger_times, best, num_bad_epochs, lr, losses, lrs,
                   n_train, n_eval, records>>
    /\ UNCHANGED notLoop

\* the early-stopping block, then the next iteration of range(config.epochs)
early_stopping ==
    /\ pc = "stop"
    /\ LET triggered == Triggered(val_loss, previous_loss)
           triggers == IF triggered THEN trigger_times + 1 ELSE 0
       IN  /\ trigger_times' = triggers
           /\ IF triggered /\ StopNow(triggers, patience)
              THEN /\ pc' = "done"
                   /\ status' = "Stopped_EarlyStop"
                   /\ UNCHANGED <<previous_loss, epoch>>
              ELSE /\ previous_loss' =
                          NextReference(val_loss, previous_loss, triggered)
                   /\ IF epoch + 1 < epochs
                      THEN epoch' = epoch + 1 /\ pc' = "train"
                              /\ status' = status
                      ELSE epoch' = epoch /\ pc' = "done"
                              /\ status' = "Stopped_Budget"
    /\ UNCHANGED <<variant, epochs, patience, val_loss, best, num_bad_epochs,
                   lr, losses, lrs, n_train, n_eval, records, log_failed>>
    /\ UNCHANGED notLoop

EpochLoop(L) ==
    \/ log_params
    \/ train_epoch
    \/ test_epoch(L)
    \/ collaborator_raises
    \/ scheduler_step
    \/ wandb_log
    \/ wandb_log_raises
    \/ early_stopping

(***************************************************************************)
(* Numbers of transform_data.                                              *)
(*                                                                         *)
(* deg.pow(-0.5) is irrational in general, so a finite value is kept       *)
(* exactly as a sum of terms (n/d) * sqrt(r), r squarefree: the set of     *)
(* triples <<r, n, d>> with n/d > 0 in lowest terms (the empty set is 0).  *)
(* A value is <<"fin", terms>>, <<"inf", {}>> (+infinity) or               *)
(* <<"nan", {}>>.  Degrees and the features drawn are non-negative, so     *)
(* no negative value arises.                                               *)
(***************************************************************************)
RECURSIVE Gcd(_, _)
Gcd(a, b) == IF b = 0 THEN a ELSE Gcd(b, a % b)

Ratio(n, d) == LET g == Gcd(n, d) IN <<n \div g, d \div g>>

RatAdd(p, q) == Ratio(p[1] * q[2] + q[1] * p[2], p[2] * q[2])

\* the largest s with s * s dividing m
SqPart(m) ==
    CHOOSE s \in 1..m :
        /\ m % (s * s) = 0
        /\ \A t \in (s + 1)..m : m % (t * t) # 0

Fin(T) == <<"fin", T>>
Zero == Fin({})
Inf == <<"inf", {}>>
NaN == <<"nan", {}>>
FromInt(n) == IF n = 0 THEN Zero ELSE Fin({<<1, n, 1>>})

Coef(T, r) ==
    IF \E t \in T : t[1] = r
    THEN LET t == CHOOSE t \in T : t[1] = r IN <<t[2], t[3]>>
    ELSE <<0, 1>>

TermsAdd(A, B) ==
    { LET c == RatAdd(Coef(A, t[1]), Coef(B, t[1])) IN <<t[1], c[1], c[2]>> :
        t \in A \cup B }

TermMul(a, b) ==
    LET m == a[1] * b[1]
        s == SqPart(m)
        c == Ratio(a[2] * b[2] * s, a[3] * b[3])
    IN  <<m \div (s * s), c[1], c[2]>>

RECURSIVE TermsSum(_)
TermsSum(P) ==
    IF P = {} THEN {}
    ELSE LET p == CHOOSE p \in P : TRUE
         IN  TermsAdd({TermMul(p[1], p[2])}, TermsSum(P \ {p}))

TermsMul(A, B) == TermsSum(A \X B)

\* a + b and a * b on floats, with the IEEE rules for inf and nan
Add(a, b) ==
    IF a[1] = "nan" \/ b[1] = "nan" THEN NaN
    ELSE IF a[1] = "inf" \/ b[1] = "inf" THEN Inf
    ELSE Fin(TermsAdd(a[2], b[2]))

Mul(a, b) ==
    IF a[1] = "nan" \/ b[1] = "nan" THEN NaN
    ELSE IF a[1] = "inf" \/ b[1] = "inf"
         THEN IF a = Zero \/ b = Zero THEN NaN ELSE Inf
    ELSE Fin(TermsMul(a[2], b[2]))

\* deg.pow(-0.5) of a count: 0 ** -0.5 is inf
PowMinusHalf(d) ==
    IF d = 0 THEN Inf
    ELSE LET s == SqPart(d)
             r == d \div (s * s)
         IN  Fin({<<r, 1, s * r>>})

(***************************************************************************)
(* transform_data(data, K)                                                 *)
(***************************************************************************)
\* adj_t = SparseTensor(row=col, col=row, ...): entry (col, row) per edge
Transposed(E) == {<<e[2], e[1]>> : e \in E}

\* deg = adj_t.sum(dim=1): the number of stored entries of each row
Degree(A, n) == Cardinality({e \in A : e[1] = n})

\* deg_inv_sqrt[deg_inv_sqrt == float('inf')] = 0
\* (InfKept: the replacement left out)
InfKept(v) == v

InfToZero(v) == IF v = Inf THEN Zero ELSE v

\* deg_inv_sqrt.view(-1, 1) * adj_t * deg_inv_sqrt.view(1, -1): each stored
\* entry (unit value) is scaled by the factor of its row, then of its column
Normalized(A, dis) == [e \in A |-> Mul(Mul(dis[e[1]], FromInt(1)), dis[e[2]])]

RECURSIVE RowSum(_, _, _)
RowSum(adj, v, S) ==
    IF S = {} THEN Zero
    ELSE LET e == CHOOSE e \in S : TRUE
         IN  Add(Mul(adj[e], v[e[2]]), RowSum(adj, v, S \ {e}))

\* adj_t @ v: row n sums its stored entries times v
MatMul(adj, v) ==
    [n \in Nodes |-> RowSum(adj, v, {e \in DOMAIN adj : e[1] = n})]

\* xs[-1]
LastOf(l) == l[Len(l)]

\* range(1, K + 1) still has the value j to yield
\* (InRangeShort: range(1, K) in its place)
InRangeShort(j, k) == j < k

InRange(j, k) == j <= k

InitTd ==
    /\ K \in (-2)..MaxK
    /\ edge_index \in {E \in SUBSET (Nodes \X Nodes) : Cardinality(E) <= MaxEdges}
    /\ has_x \in BOOLEAN
    /\ x_in \in [Nodes -> {FromInt(f) : f \in FeatVals}]
    /\ has_x = FALSE => x_in = [n \in Nodes |-> Zero]
    /\ td_pc = "adj"
    /\ td_outcome = "running"
    /\ deg_inv_sqrt = [n \in Nodes |-> Zero]
    /\ adj_t = [e \in {} |-> Zero]
    /\ xs = <<>>
    /\ data = <<>>
    /\ td_i = 0

\* lines 181-192: the adjacency and its symmetric normalization
td_normalize ==
    /\ td_pc = "adj"
    /\ LET A == Transposed(edge_index)
           dis == [n \in Nodes |-> InfToZero(PowMinusHalf(Degree(A, n)))]
       IN  /\ deg_inv_sqrt' = dis
           /\ adj_t' = Normalized(A, dis)
    /\ td_pc' = "assert_x"
    /\ UNCHANGED <<K, edge_index, x_in, has_x, td_outcome, xs, data, td_i>>
    /\ UNCHANGED notTd

\* lines 194-195: assert data.x is not None; xs = [data.x]
td_assert_x ==
    /\ td_pc = "assert_x"
    /\ IF has_x
       THEN /\ xs' = <<x_in>>
            /\ data' = [j \in {0} |-> x_in]
            /\ td_i' = 1
            /\ td_pc' = "loop"
            /\ td_outcome' = td_outcome
       ELSE /\ td_pc' = "done"
            /\ td_outcome' = "AssertionError"
            /\ UNCHANGED <<xs, data, td_i>>
    /\ UNCHANGED <<K, edge_index, x_in, has_x, deg_inv_sqrt, adj_t>>
    /\ UNCHANGED notTd

\* lines 197-200: one iteration of for i in range(1, K + 1)
td_hop ==
    /\ td_pc = "loop"
    /\ InRange(td_i, K)
    /\ LET xi == MatMul(adj_t, LastOf(xs))
       IN  /\ xs' = Append(xs, xi)
           /\ data' = [j \in DOMAIN data \cup {td_i} |->
                          IF j = td_i THEN xi ELSE data[j]]
    /\ td_i' = td_i + 1
    /\ UNCHANGED <<K, edge_index, x_in, has_x, td_pc, td_outcome,
                   deg_inv_sqrt, adj_t>>
    /\ UNCHANGED notTd

\* lines 202-206: the range is exhausted; sanity check; return data
td_return ==
    /\ td_pc = "loop"
    /\ ~InRange(td_i, K)
    /\ td_pc' = "done"
    /\ td_outcome' = IF K > 0 /\ K \notin DOMAIN data
                     THEN "AssertionError" ELSE "returned"
    /\ UNCHANGED <<K, edge_index, x_in, has_x, deg_inv_sqrt, adj_t, xs,
                   data, td_i>>
    /\ UNCHANGED notTd

NextTd == td_normalize \/ td_assert_x \/ td_hop \/ td_return

(***************************************************************************)
(* main(args) of build_yaml_SIGNplus_CS.py.  Argument values are strings;  *)
(* "None" is Python's None.                                                *)
(***************************************************************************)
HyperArgs == {"SEED", "OPTIMIZER_LR", "OPTIMIZER_DECAY", "EPOCHS",
              "HIDDEN_CHANNEL", "DROPOUT", "INPUT_DROPOUT", "K", "N_FFLAYERS",
              "BATCH_NORM", "BATCH_SIZE"}

ArgNames == {"DATASET", "MODEL", "METHOD", "TRAIN_FILE", "YAML_FILE",
             "RUN_TRIAL"} \cup HyperArgs

\* Command lines the builder is run on (inputs of the model).
MaxUserArgs == 1
Datasets == {"cora", "Cora", "arxiv", "reddit"}
Methods == {"random", "grid", "BAYES", "sobol"}
Models == {"None", "SIGN"}
TrainFiles == {"None", "hps_SIGN.py"}
YamlFiles == {"None", "sweep.yaml"}
RunTrials == {"True", "1", "0"}
UserValue == "user_value"

\* str.lower() on the strings above
Lower(str) ==
    CASE str = "Cora" -> "cora"
      [] str = "BAYES" -> "bayes"
      [] OTHER -> str

\* k.lower() on the names of the arguments
LowerKey(n) ==
    [DATASET |-> "dataset", MODEL |-> "model", METHOD |-> "method",
     TRAIN_FILE |-> "train_file", YAML_FILE |-> "yaml_file",
     RUN_TRIAL |-> "run_trial", SEED |-> "seed",
     OPTIMIZER_LR |-> "optimizer_lr", OPTIMIZER_DECAY |-> "optimizer_decay",
     EPOCHS |-> "epochs", HIDDEN_CHANNEL |-> "hidden_channel",
     DROPOUT |-> "dropout", INPUT_DROPOUT |-> "input_dropout", K |-> "k",
     N_FFLAYERS |-> "n_fflayers", BATCH_NORM |-> "batch_norm",
     BATCH_SIZE |-> "batch_size"][n]

\* the five assertions that open main
\* (MethodUnchecked: the first assertion left out)
MethodUnchecked(a) == TRUE

MethodOk(a) == Lower(a["METHOD"]) \in {"grid", "random", "bayes"}

DatasetOk(a) == Lower(a["DATASET"]) \in {"pubmed", "cora", "arxiv", "products"}

ModelOk(a) == a["MODEL"] # "None"

TrainFileOk(a) == a["TRAIN_FILE"] # "None"

YamlFileOk(a) == a["YAML_FILE"] # "None"

Constant(v) == [distribution |-> "constant", value |-> v]

Uniform(kind, lo, hi) == [distribution |-> kind, min |-> lo, max |-> hi]

Value(v) == [value |-> v]

\* param_dict
ParamDict(a) ==
    [dataset |-> Constant(Lower(a["DATASET"])),
     seed |-> Constant("42"),
     optimizer_lr |-> Uniform("uniform", "1e-5", "1e-1"),
     optimizer_decay |-> Uniform("uniform", "1e-5", "1e-1"),
     epochs |-> [distribution |-> "contant", value |-> "200"],
     hidden_channel |-> [values |-> "2**3..2**12"],
     dropout |-> Uniform("uniform", "0.1", "0.8"),
     input_dropout |-> Uniform("uniform", "0.0", "0.5"),
     K |-> Uniform("int_uniform", "0", "5"),
     n_fflayers |-> Uniform("int_uniform", "1", "5"),
     batch_norm |-> Constant("1"),
     batch_size |-> [values |-> "2**3..2**12"],
     cs_batch_size |-> Constant("10000")]

\* for k, v in vars(args).items(): if v is not None: parameters[k.lower()] = ...
UserSpecified(a, P) ==
    LET given == {n \in ArgNames : a[n] # "None"}
        keys == {LowerKey(n) : n \in given}
    IN  [key \in DOMAIN P \cup keys |->
            IF key \in keys
            THEN Value(a[CHOOSE n \in given : LowerKey(n) = key])
            ELSE P[key]]

\* the values set under if args.RUN_TRIAL
TrialValues ==
    [optimizer_lr |-> Value("1e-3"), optimizer_decay |-> Value("1e-3"),
     epochs |-> Value("5"), hidden_channel |-> Value("32"),
     dropout |-> Value("0.6"), input_dropout |-> Value("0.2"),
     n_fflayers |-> Value("2"), K |-> Value("1"), batch_norm |-> Value("1"),
     batch_size |-> Value("256")]

Truthy(v) == v # "0"

Trial(a, P) ==
    IF Truthy(a["RUN_TRIAL"])
    THEN [key \in DOMAIN P \cup DOMAIN TrialValues |->
             IF key \in DOMAIN TrialValues THEN TrialValues[key] ELSE P[key]]
    ELSE P

\* sweep_config as it is dumped
SweepConfig(a) ==
    [program |-> a["TRAIN_FILE"],
     method |-> IF Truthy(a["RUN_TRIAL"]) THEN "random" ELSE a["METHOD"],
     metric |-> [goal |-> "minimize", name |-> "epoch-val_loss"],
     parameters |-> Trial(a, UserSpecified(a, ParamDict(a)))]

InitYaml ==
    /\ \E d \in Datasets, m \in Models, me \in Methods, t \in TrainFiles,
          y \in YamlFiles, r \in RunTrials,
          U \in {S \in SUBSET HyperArgs : Cardinality(S) <= MaxUserArgs} :
          args = [n \in ArgNames |->
                    CASE n = "DATASET" -> d
                      [] n = "MODEL" -> m
                      [] n = "METHOD" -> me
                      [] n = "TRAIN_FILE" -> t
                      [] n = "YAML_FILE" -> y
                      [] n = "RUN_TRIAL" -> r
                      [] OTHER -> IF n \in U THEN UserValue ELSE "None"]
    /\ y_pc = "asserts"
    /\ y_outcome = "running"
    /\ yaml_file = <<>>

\* lines 46-50: the assertions
yaml_asserts ==
    /\ y_pc = "asserts"
    /\ IF MethodOk(args) /\ DatasetOk(args) /\ ModelOk(args)
          /\ TrainFileOk(args) /\ YamlFileOk(args)
       THEN y_pc' = "build" /\ y_outcome' = y_outcome
       ELSE y_pc' = "done" /\ y_outcome' = "AssertionError"
    /\ UNCHANGED <<args, yaml_file>>
    /\ UNCHANGED notYaml

\* lines 53-148: build sweep_config and dump it to args.YAML_FILE
yaml_write ==
    /\ y_pc = "build"
    /\ yaml_file' = <<SweepConfig(args)>>
    /\ y_pc' = "done"
    /\ y_outcome' = "written"
    /\ UNCHANGED args
    /\ UNCHANGED notYaml

NextYaml == yaml_asserts \/ yaml_write

(***************************************************************************)
(* The training loop of main(args) in dgl_SIGN.py.  An accuracy is a       *)
(* percentage; accs is the triple <<train, val, test>> that eval returns.  *)
(***************************************************************************)
\* the period of evaluation in if epoch % 100 == 0
EvalEvery == 100

\* the value of a name that no assignment has bound yet
Unbound == -1

\* the results eval can return
Accs == {<<60, 0, 40>>, <<90, 0, 45>>, <<60, 50, 40>>, <<90, 50, 45>>,
         <<60, 70, 40>>, <<90, 70, 45>>}

\* if epoch % 100 == 0
EvalDue(e) == e % EvalEvery = 0

\* if accs[1] > best_val
Improved(a, b) == a[2] > b

\* lines 300-304: the lists, best_epoch, best_val, best_test = 0, 0, 0, and
\* the header of the for loop
InitSign ==
    /\ EPOCHS \in 0..MaxSignEpochs
    /\ sign_pc = IF EPOCHS >= 1 THEN "train" ELSE "summary"
    /\ sign_outcome = "running"
    /\ sign_epoch = IF EPOCHS >= 1 THEN 1 ELSE 0
    /\ best_epoch = 0
    /\ best_train = Unbound
    /\ best_val = 0
    /\ best_test = 0
    /\ epoch_train_time = 0
    /\ epoch_inf_time = <<>>
    /\ evals = <<>>

\* lines 305-307: train, epoch_train_time.append([train_time])
sign_train ==
    /\ sign_pc = "train"
    /\ epoch_train_time' = epoch_train_time + 1
    /\ sign_pc' = "eval"
    /\ UNCHANGED <<EPOCHS, sign_outcome, sign_epoch, best_epoch, best_train,
                   best_val, best_test, epoch_inf_time, evals>>
    /\ UNCHANGED notSign

\* the next value of range(1, args.EPOCHS + 1), or the end of the loop
sign_next_pc == IF sign_epoch + 1 <= EPOCHS THEN "train" ELSE "summary"

sign_next_epoch == IF sign_epoch + 1 <= EPOCHS THEN sign_epoch + 1 ELSE sign_epoch

\* lines 309-319 on an epoch divisible by 100: eval, then the best is updated
sign_eval ==
    /\ sign_pc = "eval"
    /\ EvalDue(sign_epoch)
    /\ \E accs \in Accs :
          /\ evals' = Append(evals, accs)
          /\ IF Improved(accs, best_val)
             THEN /\ best_epoch' = sign_epoch
                  /\ best_train' = accs[1]
                  /\ best_val' = accs[2]
                  /\ best_test' = accs[3]
             ELSE UNCHANGED <<best_epoch, best_train, best_val, best_test>>
    /\ epoch_inf_time' = Append(epoch_inf_time, sign_epoch)
    /\ sign_pc' = sign_next_pc
    /\ sign_epoch' = sign_next_epoch
    /\ UNCHANGED <<EPOCHS, sign_outcome, epoch_train_time>>
    /\ UNCHANGED notSign

\* line 309 on any other epoch: nothing is evaluated
sign_skip_eval ==
    /\ sign_pc = "eval"
    /\ ~EvalDue(sign_epoch)
    /\ sign_pc' = sign_next_pc
    /\ sign_epoch' = sign_next_epoch
    /\ UNCHANGED <<EPOCHS, sign_outcome, best_epoch, best_train, best_val,
                   best_test, epoch_train_time, epoch_inf_time, evals>>
    /\ UNCHANGED notSign

\* lines 321-322: print('Best Epoch ...'.format(best_epoch, best_train, ...)):
\* reading best_train while it is unbound raises a NameError
sign_summary ==
    /\ sign_pc = "summary"
    /\ sign_outcome' = IF best_train = Unbound THEN "NameError" ELSE "printed"
    /\ sign_pc' = "done"
    /\ UNCHANGED <<EPOCHS, sign_epoch, best_epoch, best_train, best_val,
                   best_test, epoch_train_time, epoch_inf_time, evals>>
    /\ UNCHANGED notSign

NextSign == sign_train \/ sign_eval \/ sign_skip_eval \/ sign_summary

(***************************************************************************)
(* Specifications: one program runs, the others are idle.                  *)
(***************************************************************************)
IdleLoop ==
    /\ variant = "GAT"
    /\ epochs = 0
    /\ patience = PatienceOf("GAT")
    /\ lr = LrDefault
    /\ pc = "idle"
    /\ status = "Running"
    /\ epoch = 0
    /\ val_loss = Num(0, 0)
    /\ previous_loss = Num(1, 0)
    /\ trigger_times = 0
    /\ best = PosInf
    /\ num_bad_epochs = 0
    /\ losses = <<>>
    /\ lrs = <<LrDefault>>
    /\ n_train = 0
    /\ n_eval = 0
    /\ records = <<>>
    /\ log_failed = FALSE

IdleTd ==
    /\ K = 0
    /\ edge_index = {}
    /\ has_x = FALSE
    /\ x_in = [n \in Nodes |-> Zero]
    /\ td_pc = "idle"
    /\ td_outcome = "running"
    /\ deg_inv_sqrt = [n \in Nodes |-> Zero]
    /\ adj_t = [e \in {} |-> Zero]
    /\ xs = <<>>
    /\ data = <<>>
    /\ td_i = 0

IdleYaml ==
    /\ args = [n \in ArgNames |-> "None"]
    /\ y_pc = "idle"
    /\ y_outcome = "running"
    /\ yaml_file = <<>>

IdleSign ==
    /\ EPOCHS = 0
    /\ sign_pc = "idle"
    /\ sign_outcome = "running"
    /\ sign_epoch = 0
    /\ best_epoch = 0
    /\ best_train = Unbound
    /\ best_val = 0
    /\ best_test = 0
    /\ epoch_train_time = 0
    /\ epoch_inf_time = <<>>
    /\ evals = <<>>

\* The early-stopping runs: short budgets, patience 1..MaxPatience.
Init ==
    /\ InitLoop(1..MaxEpochs, 1..MaxPatience, {LrDefault})
    /\ IdleTd
    /\ IdleYaml
    /\ IdleSign

Next == EpochLoop(StopLosses)

Spec == Init /\ [][Next]_vars

\* The scheduler runs: budgets long enough for a plateau, the scripts' patience.
InitLR ==
    /\ InitLoop({LrEpochs}, {PatienceOf(v) : v \in Variants}, LrVals)
    /\ patience = PatienceOf(variant)
    /\ IdleTd
    /\ IdleYaml
    /\ IdleSign

NextLR == EpochLoop(PlateauLosses)

SpecLR == InitLR /\ [][NextLR]_vars


\* transform_data runs on every small graph.
InitTD == InitTd /\ IdleLoop /\ IdleYaml /\ IdleSign

SpecTD == InitTD /\ [][NextTd]_vars

\* The sweep-config builder runs on every command line.
InitYAML == InitYaml /\ IdleLoop /\ IdleTd /\ IdleSign

SpecYaml == InitYAML /\ [][NextYaml]_vars

\* The training loop of dgl_SIGN.py runs on every epoch budget.
InitSIGN == InitSign /\ IdleLoop /\ IdleTd /\ IdleYaml

SpecSign == InitSIGN /\ [][NextSign]_vars

(***************************************************************************)
(* Claims about the epoch loop.                                            *)
(***************************************************************************)
Sentinel == Num(1, 0)

NLoss == Len(losses)

\* The run ended through the loop itself (no call raised).
Ended == pc = "done" /\ status \in {"Stopped_Budget", "Stopped_EarlyStop"}

\* Epoch k-1 (the k-th loss) is a new strict minimum that no later loss beats.
NeverImprovesAfter(k) ==
    /\ \A i \in 1..(k - 1) : Gt(losses[i], losses[k])
    /\ \A j \in (k + 1)..NLoss : ~Lt(losses[j], losses[k])

\* Epoch k-1 is not a rise over its predecessor, every later epoch is.
RisesAfter(k) ==
    /\ ~Gt(losses[k], IF k = 1 THEN Sentinel ELSE losses[k - 1])
    /\ \A j \in (k + 1)..NLoss : Gt(losses[j], losses[j - 1])

\* C1, as stated: when the losses (all below the sentinel) never improve after
\* epoch E (equal losses included) and E + P is within the budget, the loop
\* ends by the early stop with epoch E + P as the last epoch run.
C1_StopsAfterNoImprovement ==
    (Ended /\ \A j \in 1..NLoss : Lt(losses[j], Sentinel)) =>
        \A k \in 1..NLoss :
            (NeverImprovesAfter(k) /\ (k - 1) + patience < epochs)
                => (status = "Stopped_EarlyStop" /\ NLoss = k + patience)

\* C1, amended: when every loss after epoch E is strictly greater than the
\* loss of the epoch before it, epoch E itself is not such a rise, and E + P
\* is within the budget, the loop ends by the early stop and epoch E + P is
\* the last epoch run (so no earlier epoch stopped it and E + P + 1 never ran).
C1_StopsAfterRises ==
    Ended =>
        \A k \in 1..NLoss :
            (RisesAfter(k) /\ (k - 1) + patience < epochs)
                => /\ status = "Stopped_EarlyStop"
                   /\ NLoss = k + patience
                   /\ epoch = (k - 1) + patience
                   /\ n_train = k + patience

C1_Witness ==
    /\ Ended
    /\ status = "Stopped_EarlyStop"
    /\ patience = 3
    /\ NLoss = 5
    /\ RisesAfter(2)
    /\ epochs = 5

StrictlyDecreasing ==
    /\ \A j \in 1..NLoss : Lt(losses[j], Sentinel)
    /\ \A j \in 2..NLoss : Lt(losses[j], losses[j - 1])

\* C2: while the losses are strictly decreasing (all below the sentinel) the
\* trigger counter is 0 after every epoch and the early stop never fires; a
\* run that ends without a raised exception ends by budget exhaustion after
\* epochs 0..epochs-1 have all run.
C2_DecreasingRunsFullBudget ==
    StrictlyDecreasing =>
        /\ trigger_times = 0
        /\ status # "Stopped_EarlyStop"
        /\ Ended => /\ status = "Stopped_Budget"
                    /\ NLoss = epochs
                    /\ n_train = epochs
                    /\ records = [i \in 1..epochs |-> i - 1]

C2_Witness ==
    /\ Ended
    /\ StrictlyDecreasing
    /\ epochs = 4
    /\ NLoss = 4

\* C3: a wandb.log call that raised never leaves the run error-terminated.
C3_LogFailureDoesNotAbort == log_failed => status # "Stopped_Error"

Scenario == <<Num(0, 90), Num(0, 80), Num(0, 85), Num(0, 90), Num(0, 95)>>

InScenario == epochs = 5 /\ patience = 3 /\ losses = Scenario

\* C7, as stated: budget 5, losses [0.9, 0.8, 0.85, 0.9, 0.95], patience 3:
\* the early stop never fires and the run ends by budget exhaustion.
C7_ScenarioEndsByBudget ==
    (InScenario /\ Ended) => status = "Stopped_Budget"

\* C7, amended: in that scenario all 5 epochs run, but 0.85, 0.9 and 0.95 are
\* three consecutive rises, so the trigger counter reaches 3 in the fifth
\* epoch (index 4) and the run ends by the early-stop break there.
C7_ScenarioStopsInFifthEpoch ==
    (InScenario /\ Ended) =>
        /\ status = "Stopped_EarlyStop"
        /\ trigger_times = 3
        /\ epoch = 4
        /\ n_train = 5
        /\ n_eval = 5

C7_Witness == InScenario /\ Ended /\ Len(records) = 5

\* Epochs whose early-stopping block ran to its end (no break).
Completed == IF status = "Stopped_Budget" THEN NLoss ELSE epoch

RECURSIVE MinLoss(_)
MinLoss(n) ==
    IF n = 1 THEN losses[1]
    ELSE LET m == MinLoss(n - 1)
         IN  IF Lt(losses[n], m) THEN losses[n] ELSE m

\* C10, as stated: after any sequence of epochs the reference loss equals
\* the minimum validation loss seen so far.
C10_ReferenceIsMinimum ==
    (pc = "train" /\ NLoss > 0) => previous_loss = MinLoss(NLoss)

\* C10, amended: the reference loss is replaced by the current loss at the
\* end of every epoch that does not break out of the loop, in both branches
\* (also when the trigger counter is incremented); it therefore equals the
\* validation loss of the last epoch completed (the sentinel before the
\* first), which need not be the minimum, and it can increase.
C10_ReferenceIsLastLoss ==
    previous_loss = (IF Completed = 0 THEN Sentinel ELSE losses[Completed])

C10_Witness ==
    /\ pc = "train"
    /\ NLoss = 2
    /\ trigger_times = 1
    /\ Gt(previous_loss, losses[1])

\* scheduler.best after the first n losses, from the history.
RECURSIVE HistBest(_)
HistBest(n) ==
    IF n = 0 THEN PosInf
    ELSE LET b == HistBest(n - 1)
         IN  IF Lt(Scale(losses[n], 10000), Scale(b, 9999))
             THEN losses[n] ELSE b

NoImprovement(n) ==
    ~Lt(Scale(losses[n], 10000), Scale(HistBest(n - 1), 9999))

\* Number of consecutive non-improving losses ending with the n-th.
RECURSIVE PlateauLen(_)
PlateauLen(n) ==
    IF n = 0 \/ ~NoImprovement(n) THEN 0 ELSE 1 + PlateauLen(n - 1)

\* lr after one reduction: max(lr * 0.1, 1e-6), applied if it lowers lr by
\* more than 1e-8.
OnceReduced(old) ==
    LET new == IF old \div 10 >= 1000000 THEN old \div 10 ELSE 1000000
    IN  IF old - new > 10000 THEN new ELSE old

\* Scheduler steps taken so far; lrs[n + 1] is lr after the n-th.
NSteps == Len(lrs) - 1

TdDone == td_pc = "done"

\* C4: for every K < 0 the call ends in an error, it does not return data.
C4_RejectsNegativeK == (TdDone /\ K < 0 /\ has_x) => td_outcome # "returned"

InDeg(n) == Cardinality({e \in edge_index : e[2] = n})

\* 1 / sqrt(m), with a zero degree giving the factor 0
InvSqrt(m) == IF m = 0 THEN Zero ELSE PowMinusHalf(m)

RECURSIVE ExpectedRow(_, _, _)
ExpectedRow(v, n, S) ==
    IF S = {} THEN Zero
    ELSE LET src == CHOOSE src \in S : TRUE
         IN  Add(Mul(InvSqrt(InDeg(n) * InDeg(src)), v[src]),
                 ExpectedRow(v, n, S \ {src}))

\* D^(-1/2) A D^(-1/2) applied to v, from the edge list
ExpectedHop(v) ==
    [n \in Nodes |->
        ExpectedRow(v, n, {e[1] : e \in {f \in edge_index : f[2] = n}})]

\* C5: for K >= 0 (and features present) the call returns exactly the K + 1
\* matrices data.x, x1..xK; data.x is the input unchanged, and each x_i is the
\* normalized adjacency applied to x_(i-1).
C5_KPlusOneMatrices ==
    (TdDone /\ K >= 0 /\ has_x) =>
        /\ td_outcome = "returned"
        /\ DOMAIN data = 0..K
        /\ Len(xs) = K + 1
        /\ data[0] = x_in
        /\ \A j \in 1..K : data[j] = ExpectedHop(data[j - 1])

C5_Witness ==
    /\ TdDone
    /\ K = 2
    /\ DOMAIN data = 0..2
    /\ data[1] # data[0]
    /\ data[2] # data[1]
    /\ data[2] # data[0]

Isolated(n) == \A e \in edge_index : e[1] # n /\ e[2] # n

\* C6: once the normalization is computed, an isolated node has factor 0 and
\* a zero row in every x_i, i >= 1; no entry of an x_i is inf or nan.
C6_IsolatedNodesStayZero ==
    td_pc \in {"assert_x", "loop", "done"} =>
        /\ \A n \in Nodes :
              Isolated(n) =>
                  /\ deg_inv_sqrt[n] = Zero
                  /\ \A j \in DOMAIN data \ {0} : data[j][n] = Zero
        /\ \A j \in DOMAIN data \ {0} : \A n \in Nodes : data[j][n][1] = "fin"

C6_Witness ==
    /\ TdDone
    /\ K = 2
    /\ Isolated(3)
    /\ x_in[3] # Zero
    /\ data[2][3] = Zero
    /\ data[2][1] # Zero

(***************************************************************************)
(* Claims about the sweep-config builder.                                  *)
(***************************************************************************)
AllValid ==
    /\ args["METHOD"] \in {"random", "grid", "BAYES"}
    /\ args["DATASET"] \in {"cora", "Cora", "arxiv"}
    /\ args["MODEL"] # "None"
    /\ args["TRAIN_FILE"] # "None"
    /\ args["YAML_FILE"] # "None"

\* C9: the YAML file is written only when all five checks pass; a call with
\* an invalid METHOD or DATASET or an unset MODEL, TRAIN_FILE or YAML_FILE
\* ends in an AssertionError with nothing written.
C9_FailsFast ==
    /\ yaml_file # <<>> => AllValid
    /\ (y_pc = "done" /\ ~AllValid) =>
          (y_outcome = "AssertionError" /\ yaml_file = <<>>)

C9_Witness ==
    /\ y_pc = "done"
    /\ y_outcome = "AssertionError"
    /\ args["METHOD"] = "sobol"
    /\ args["DATASET"] = "cora"
    /\ args["MODEL"] = "SIGN"
    /\ args["TRAIN_FILE"] # "None"
    /\ args["YAML_FILE"] # "None"
    /\ yaml_file = <<>>

\* the key under which the default parameter table holds a hyperparameter
TableKey(n) == IF n = "K" THEN "K" ELSE LowerKey(n)

\* C12: in the written sweep config every hyperparameter the user passed on
\* the command line has, under the key of the default parameter table, the
\* entry {'value': <user value>}, whatever RUN_TRIAL is.
C12_UserValuesKept ==
    y_outcome = "written" =>
        \A n \in HyperArgs :
            args[n] # "None" =>
                yaml_file[1].parameters[TableKey(n)] = Value(args[n])

(***************************************************************************)
(* Claims about the training loop of dgl_SIGN.py.                          *)
(***************************************************************************)
SignDone == sign_pc = "done"

\* the largest validation accuracy among the evaluations
MaxVal == CHOOSE v \in {evals[k][2] : k \in 1..Len(evals)} :
              \A k \in 1..Len(evals) : evals[k][2] <= v

\* the first evaluation that reached it
FirstBest == CHOOSE k \in 1..Len(evals) :
                 /\ evals[k][2] = MaxVal
                 /\ \A j \in 1..(k - 1) : evals[j][2] < MaxVal

\* C13: for every budget EPOCHS >= 1 and all evaluation results, the
\* evaluations are those of the epochs divisible by 100, best_val is never
\* below a validation accuracy already seen (it never decreases), and when
\* the loop has ended the 'Best Epoch' summary is printed with best_epoch the
\* earliest evaluated epoch of maximum validation accuracy and best_train,
\* best_val, best_test the accuracies of that epoch.
C13_BestSummaryAlwaysProduced ==
    /\ Len(epoch_inf_time) = Len(evals)
    /\ \A k \in 1..Len(epoch_inf_time) : epoch_inf_time[k] = 100 * k
    /\ \A k \in 1..Len(evals) : best_val >= evals[k][2]
    /\ (SignDone /\ EPOCHS >= 1) =>
          /\ Len(evals) = EPOCHS \div 100
          /\ sign_outcome = "printed"
          /\ Len(evals) >= 1
          /\ best_epoch = 100 * FirstBest
          /\ best_train = evals[FirstBest][1]
          /\ best_val = evals[FirstBest][2]
          /\ best_test = evals[FirstBest][3]

=============================================================================
